---- MODULE Spec2Model ----
(***************************************************************************)
(* postgres-mcp: the six tool handlers of tools.go, run against a small    *)
(* relational engine.  Every handler is a sequence of steps, one per call  *)
(* it makes on the pool, the transaction or the cursor, so that the        *)
(* deferred rows.Close() and tx.Rollback() are visible steps of the        *)
(* invocation.                                                             *)
(***************************************************************************)
EXTENDS Integers, Sequences, FiniteSets, TLC

(* ----------------------------- bounds ---------------------------------- *)

\* keys of the user table the statements work on
MaxKey == 2

\* values a row of the user table can hold
MaxVal == 2

\* invocation slots that can be in flight at the same time
NumCalls == 2

Keys == 1..MaxKey

Vals == 1..MaxVal

Calls == 1..NumCalls

(* --------------------------- Go value shapes --------------------------- *)

\* a column value as rows.Values() hands it out: an integer or a string
IntCell(n) == [t |-> "int", i |-> n, s |-> ""]

StrCell(str) == [t |-> "str", i |-> 0, s |-> str]

BoolCell(b) == [t |-> "bool", i |-> IF b THEN 1 ELSE 0, s |-> ""]

\* a float8 NaN, which pgx decodes and encoding/json refuses
NaNCell == [t |-> "nan", i |-> 0, s |-> ""]

\* SQL NULL, scanned into a nil *string
NullCell == [t |-> "null", i |-> 0, s |-> ""]

\* the nil error
NoErr == ""

\* a nil *mcp.CallToolResult
NilResult == [isNil |-> TRUE, IsError |-> FALSE, Text |-> ""]

\* &mcp.CallToolResult{Content: [TextContent{Text: text}], IsError: isError}
ToolResult(text, isError) == [isNil |-> FALSE, IsError |-> isError, Text |-> text]

\* the nil `any` returned as data payload on the error paths
NilData == [kind |-> "nil", nilSlice |-> FALSE, elems |-> <<>>, s |-> ""]

\* a []map[string]interface{} : `var results []map...` is the nil slice
NilSlice == [kind |-> "slice", nilSlice |-> TRUE, elems |-> <<>>, s |-> ""]

\* a slice growing at its front
GoPrepend(slice, row) ==
    [kind |-> "slice", nilSlice |-> FALSE, elems |-> << row >> \o slice.elems, s |-> ""]

\* append(slice, row): the result is never the nil slice
GoAppend(slice, row) ==
    [kind |-> "slice", nilSlice |-> FALSE, elems |-> Append(slice.elems, row), s |-> ""]

\* a Go string carried in an `any`
StringData(str) == [kind |-> "string", nilSlice |-> FALSE, elems |-> <<>>, s |-> str]

\* the (result, data, err) triple every handler returns
Triple(result, data, err) == [result |-> result, data |-> data, err |-> err]

\* the value of ret[i] while no return has happened
NoReturn == [result |-> NilResult, data |-> NilData, err |-> "<pending>"]

(* ------------------------- tools.go helpers ---------------------------- *)

\* the raw argument keys of the six explain flags
FlagNames == {"analyze", "verbose", "costs", "buffers", "timing", "summary"}

\* defaults with buffers and summary swapped
FlagDefaultSwapped ==
    [f \in FlagNames |-> f \in {"analyze", "costs", "timing", "buffers"}]

\* the defaults passed to getExplicitBool at tools.go:327-332
FlagDefault ==
    [f \in FlagNames |-> f \in {"analyze", "costs", "timing", "summary"}]

\* a merge that takes a false value for an omitted one
getExplicitBoolByValue(rawArgs, key, argValue, defaultValue) ==
    IF argValue THEN argValue ELSE defaultValue

\* getExplicitBool with `exist` spelled as a set of keys
getExplicitBool(rawArgs, key, argValue, defaultValue) ==
    IF key \in rawArgs THEN argValue ELSE defaultValue

\* the schema passed through as it came
getSchemaAsGiven(schema) == schema

getSchema(schema) == IF schema = "" THEN "public" ELSE schema

\* raw arguments that count every flag as supplied when there is no request
\* to read them from
RawArgsOfTyped(req) == IF req.isNil \/ ~req.parses THEN FlagNames ELSE req.keys

\* rawArgs after tools.go:319-325: the keys of req.Params.Arguments when the
\* request is there and its arguments parse, the empty map otherwise
RawArgsOf(req) == IF req.isNil \/ ~req.parses THEN {} ELSE req.keys

\* the six resolved flags, tools.go:327-332
ResolveFlags(req, args) ==
    [f \in FlagNames |-> getExplicitBool(RawArgsOf(req), f, args.flags[f], FlagDefault[f])]

validFormats == {"text", "json", "xml", "yaml"}

\* the empty format defaulted, the validation left out
ResolveFormatUnchecked(fmtArg) == IF fmtArg = "" THEN "json" ELSE fmtArg

\* tools.go:334-343
ResolveFormat(fmtArg) ==
    LET format == IF fmtArg = "" THEN "json" ELSE fmtArg
    IN  IF format \in validFormats THEN format ELSE "json"

\* fmt's %t
BoolStr(b) == IF b THEN "true" ELSE "false"

\* the option list with BUFFERS appended before VERBOSE
BuildOptionsBuffersFirst(flags, format) ==
    LET base == << "ANALYZE " \o BoolStr(flags["analyze"]),
                   "COSTS " \o BoolStr(flags["costs"]),
                   "SUMMARY " \o BoolStr(flags["summary"]),
                   "FORMAT " \o format >>
        o1 == IF flags["buffers"] THEN Append(base, "BUFFERS true") ELSE base
        o2 == IF flags["verbose"] THEN Append(o1, "VERBOSE true") ELSE o1
    IN  IF flags["analyze"] THEN Append(o2, "TIMING " \o BoolStr(flags["timing"])) ELSE o2

\* the option list of tools.go:345-360
BuildOptions(flags, format) ==
    LET base == << "ANALYZE " \o BoolStr(flags["analyze"]),
                   "COSTS " \o BoolStr(flags["costs"]),
                   "SUMMARY " \o BoolStr(flags["summary"]),
                   "FORMAT " \o format >>
        o1 == IF flags["verbose"] THEN Append(base, "VERBOSE true") ELSE base
        o2 == IF flags["buffers"] THEN Append(o1, "BUFFERS true") ELSE o1
    IN  IF flags["analyze"] THEN Append(o2, "TIMING " \o BoolStr(flags["timing"])) ELSE o2

\* strings.Join
RECURSIVE Join(_, _)
Join(strs, sep) ==
    IF strs = <<>> THEN ""
    ELSE IF Len(strs) = 1 THEN strs[1]
    ELSE strs[1] \o sep \o Join(Tail(strs), sep)

\* the text before the caller's statement in tools.go:369
ExplainPrefix(options) == "EXPLAIN (" \o Join(options, ", ") \o ") "

(* ------------------------- JSON serialisation -------------------------- *)

\* every column name of the model in byte order, the order in which
\* encoding/json writes the keys of a map
KeyOrder ==
    << "QUERY PLAN", "check_clause", "column_name", "column_position",
       "constraint_name", "constraint_type", "data_type", "default",
       "delete_rule", "foreign_column_name", "foreign_table_name",
       "index_definition", "index_name", "index_type", "is_nullable",
       "is_primary", "is_unique", "k", "max_length", "table_name",
       "table_type", "update_rule", "v", "x" >>

Digits == << "0", "1", "2", "3", "4", "5", "6", "7", "8", "9" >>

RECURSIVE IntStr(_)
IntStr(n) == IF n < 10 THEN Digits[n + 1] ELSE IntStr(n \div 10) \o Digits[(n % 10) + 1]

\* json.Marshal refuses a NaN float
Marshalable(cell) == cell.t # "nan"

EncodeCell(cell) ==
    IF cell.t = "int" THEN IntStr(cell.i)
    ELSE IF cell.t = "bool" THEN BoolStr(cell.i = 1)
    ELSE "\"" \o cell.s \o "\""

\* one map, indented as an element of the top-level array
EncodeRow(row) ==
    LET keys == SelectSeq(KeyOrder, LAMBDA n : n \in DOMAIN row)
        members == [j \in 1..Len(keys) |->
                       "    \"" \o keys[j] \o "\": " \o EncodeCell(row[keys[j]])]
    IN  IF keys = <<>> THEN "  {}"
        ELSE "  {\n" \o Join(members, ",\n") \o "\n  }"

\* json.MarshalIndent(data, "", "  ") of a []map[string]interface{}
MarshalIndent(data) ==
    IF data.nilSlice THEN "null"
    ELSE IF data.elems = <<>> THEN "[]"
    ELSE "[\n" \o Join([j \in 1..Len(data.elems) |-> EncodeRow(data.elems[j])], ",\n") \o "\n]"

MarshalFails(data) ==
    \E j \in 1..Len(data.elems) :
        \E n \in DOMAIN data.elems[j] : ~Marshalable(data.elems[j][n])

\* a marshal failure reported next to a result that holds the data
returnJSONResultWithError(data) ==
    IF MarshalFails(data)
    THEN Triple(ToolResult("", FALSE), data, "failed to marshal results: json: unsupported value: NaN")
    ELSE Triple(ToolResult(MarshalIndent(data), FALSE), data, NoErr)

returnJSONResult(data) ==
    IF MarshalFails(data)
    THEN Triple(NilResult, NilData, "failed to marshal results: json: unsupported value: NaN")
    ELSE Triple(ToolResult(MarshalIndent(data), FALSE), data, NoErr)

\* tools.go:41-45, value a cell, the NULL cell standing for the nil *string
addOptionalString(m, key, value) ==
    IF value.t # "null" THEN [n \in DOMAIN m \cup {key} |-> IF n = key THEN value ELSE m[n]]
    ELSE m

(* ---------------------- the database engine ----------------------------- *)

\* a select list entry: column `col` AS `as`
Item(col, as) == [col |-> col, as |-> as]

\* select lists in select-list order: k, v / v, k / k AS x, v AS x
SelectLists ==
    { << Item("k", "k"), Item("v", "v") >>,
      << Item("v", "v"), Item("k", "k") >>,
      << Item("k", "x"), Item("v", "x") >> }

Stmt(op, key, val, list) == [op |-> op, key |-> key, val |-> val, list |-> list]

\* select lists in the order k, v
PlainList == << Item("k", "k"), Item("v", "v") >>

\* the statements a caller can send: SELECT <list> FROM t [WHERE k = key]
\* (key 0: no WHERE), SELECT 'NaN'::float8 AS x, INSERT INTO t VALUES (key, 1),
\* UPDATE t SET v = val WHERE k = key, DELETE FROM t WHERE k = key, and text
\* that does not parse
Stmts ==
    { Stmt("select", key, 0, PlainList) : key \in 0..MaxKey }
    \cup { Stmt("select", 0, 0, l) : l \in SelectLists }
    \cup { Stmt("selectnan", 0, 0, << >>), Stmt("malformed", 0, 0, << >>) }
    \cup { Stmt("insert", key, 1, << >>) : key \in Keys }
    \cup { Stmt("update", key, val, << >>) : key \in Keys, val \in Vals }
    \cup { Stmt("delete", key, 0, << >>) : key \in Keys }

\* contents of the user table: the value stored under each key, 0 for no row
Tables == [Keys -> 0..MaxVal]

\* the message of a statement rejected when it is parsed (pgx prepares the
\* statement inside Query, so this one is Query's error)
ParseError(stmt) == IF stmt.op = "malformed" THEN "ERROR: syntax error (SQLSTATE 42601)" ELSE NoErr

\* the message of a statement rejected while it executes
ExecError(stmt, tbl) ==
    IF stmt.op = "insert" /\ tbl[stmt.key] # 0
    THEN "ERROR: duplicate key value violates unique constraint (SQLSTATE 23505)"
    ELSE NoErr

\* the table after the statement has executed without error
ExecTable(stmt, tbl) ==
    CASE stmt.op = "insert" -> [tbl EXCEPT ![stmt.key] = stmt.val]
      [] stmt.op = "update" -> IF tbl[stmt.key] # 0 THEN [tbl EXCEPT ![stmt.key] = stmt.val] ELSE tbl
      [] stmt.op = "delete" -> [tbl EXCEPT ![stmt.key] = 0]
      [] OTHER -> tbl

\* rows.FieldDescriptions() of the statement's result
ExecFields(stmt) ==
    CASE stmt.op = "select" -> [j \in 1..Len(stmt.list) |-> stmt.list[j].as]
      [] stmt.op = "selectnan" -> << "x" >>
      [] OTHER -> << >>

\* the keys of the table rows a SELECT matches, in key order
RECURSIVE MatchFrom(_, _, _)
MatchFrom(stmt, tbl, key) ==
    IF key > MaxKey THEN << >>
    ELSE IF tbl[key] # 0 /\ stmt.key \in {0, key}
         THEN << key >> \o MatchFrom(stmt, tbl, key + 1)
         ELSE MatchFrom(stmt, tbl, key + 1)

\* the rows the statement returns, each a tuple of cells in select-list order
ExecRows(stmt, tbl) ==
    CASE stmt.op = "select" ->
            LET m == MatchFrom(stmt, tbl, 1)
            IN  [r \in 1..Len(m) |->
                    [j \in 1..Len(stmt.list) |->
                        IF stmt.list[j].col = "k" THEN IntCell(m[r]) ELSE IntCell(tbl[m[r]])]]
      [] stmt.op = "selectnan" -> << << NaNCell >> >>
      [] OTHER -> << >>

\* what pgx reports when the connection fails under a call
ConnLost == "unexpected EOF"

\* what rows.Values() / rows.Scan() reports for a row it cannot decode
DecodeFault == "cannot decode row"

\* a pgx.Rows: the column names, the rows Next() hands out before it returns
\* false, the index of a row whose Values()/Scan() fails (0: none), and
\* what Err() reports after the loop
Cursor(fields, rows, scanFault, err) ==
    [fields |-> fields, rows |-> rows, scanFault |-> scanFault, err |-> err]

NoCursor == Cursor(<< >>, << >>, 0, NoErr)

\* the cursors the driver can hand out for a result set: all rows read; one
\* row failing to decode; the connection failing after j rows
CursorsOf(fields, rows) ==
    { Cursor(fields, rows, 0, NoErr) }
    \cup { Cursor(fields, rows, k, NoErr) : k \in 1..Len(rows) }
    \cup { Cursor(fields, SubSeq(rows, 1, j), 0, ConnLost) : j \in 0..Len(rows) }

\* a statement rejected while it executes: pgx has already returned the Rows,
\* Next() returns false at once and Err() carries the engine's message
RejectedCursor(fields, msg) == Cursor(fields, << >>, 0, msg)

(* EXPLAIN, as the engine reads it from the option list of the statement   *)

OptionSet(options) == { options[j] : j \in 1..Len(options) }

OptAnalyze(options) == "ANALYZE true" \in OptionSet(options)

OptFormat(options) ==
    IF \E f \in validFormats : ("FORMAT " \o f) \in OptionSet(options)
    THEN CHOOSE f \in validFormats : ("FORMAT " \o f) \in OptionSet(options)
    ELSE "text"

\* the engine refuses TIMING without ANALYZE, and a statement that does not parse
ExplainParseError(options, stmt) ==
    IF ~OptAnalyze(options) /\ \E b \in BOOLEAN : ("TIMING " \o BoolStr(b)) \in OptionSet(options)
    THEN "ERROR: EXPLAIN option TIMING requires ANALYZE (SQLSTATE 22023)"
    ELSE ParseError(stmt)

PlanNode(stmt) ==
    CASE stmt.op = "insert" -> "Insert on t"
      [] stmt.op = "update" -> "Update on t"
      [] stmt.op = "delete" -> "Delete on t"
      [] stmt.op = "select" -> "Seq Scan on t"
      [] OTHER -> "Result"

\* the rows of the plan: one json document, or the lines of the text plan
PlanRows(options, stmt) ==
    IF OptFormat(options) = "json"
    THEN << << StrCell("[{Plan: " \o PlanNode(stmt) \o "}]") >> >>
    ELSE IF OptAnalyze(options)
         THEN << << StrCell(PlanNode(stmt)) >>, << StrCell("Execution Time: 1 ms") >> >>
         ELSE << << StrCell(PlanNode(stmt)) >> >>

(* the catalog: schema public holds table t(k integer primary key,         *)
(* v varchar(8) check (v <> '')), schema audit holds table log             *)

Schemas == {"", "public", "audit", "nope"}

TableNames == {"t", "log"}

CatalogTables(schema) ==
    CASE schema = "public" -> << << StrCell("t"), StrCell("BASE TABLE") >> >>
      [] schema = "audit" -> << << StrCell("log"), StrCell("BASE TABLE") >> >>
      [] OTHER -> << >>

CatalogColumns(schema, name) ==
    IF schema = "public" /\ name = "t"
    THEN << << StrCell("k"), StrCell("integer"), NullCell, StrCell("NO"), NullCell >>,
            << StrCell("v"), StrCell("character varying"), StrCell("8"), StrCell("YES"), StrCell("'a'") >> >>
    ELSE IF schema = "audit" /\ name = "log"
    THEN << << StrCell("msg"), StrCell("text"), NullCell, StrCell("YES"), NullCell >> >>
    ELSE << >>

CatalogConstraints(schema, name) ==
    IF schema = "public" /\ name = "t"
    THEN << << StrCell("t_v_check"), StrCell("CHECK"), NullCell, StrCell("t"), StrCell("v"),
               NullCell, NullCell, StrCell("(v <> '')") >>,
            << StrCell("t_pkey"), StrCell("PRIMARY KEY"), StrCell("k"), StrCell("t"), StrCell("k"),
               NullCell, NullCell, NullCell >> >>
    ELSE << >>

CatalogIndexes(schema, name) ==
    IF schema = "public" /\ name = "t"
    THEN << << StrCell("t_pkey"), StrCell("CREATE UNIQUE INDEX t_pkey ON t (k)"), StrCell("btree"),
               BoolCell(TRUE), BoolCell(TRUE), StrCell("k"), IntCell(0) >> >>
    ELSE << >>

CatalogTools == {"list_tables", "get_table_schema", "get_table_constraints", "get_table_indexes"}

Tools == CatalogTools \cup {"query", "explain_analyze"}

\* the rows the catalog statement of a tool returns for its parameters $1, $2
CatalogRows(tool, params) ==
    CASE tool = "list_tables" -> CatalogTables(params[1])
      [] tool = "get_table_schema" -> CatalogColumns(params[1], params[2])
      [] tool = "get_table_constraints" -> CatalogConstraints(params[1], params[2])
      [] tool = "get_table_indexes" -> CatalogIndexes(params[1], params[2])

(* ----------------------- the handlers' row loops ------------------------ *)

\* return nil, nil, fmt.Errorf(...)
HardError(msg) == Triple(NilResult, NilData, msg)

\* the error-flagged result of tools.go:88-93 and 372-377
FlaggedResult(text) == Triple(ToolResult(text, TRUE), NilData, NoErr)

\* a row map that keeps the first value written under a name
RowMapFirstWins(fields, values) ==
    [n \in { fields[j] : j \in 1..Len(fields) } |->
        values[CHOOSE j \in 1..Len(fields) :
                  fields[j] = n /\ \A h \in 1..Len(fields) : fields[h] = n => j <= h]]

\* tools.go:104-107: row[field.Name] = values[i], a later column of the
\* same name overwriting an earlier one
RowMap(fields, values) ==
    [n \in { fields[j] : j \in 1..Len(fields) } |->
        values[CHOOSE j \in 1..Len(fields) :
                  fields[j] = n /\ \A h \in 1..Len(fields) : fields[h] = n => h <= j]]

\* the loop returning what it read without consulting rows.Err()
RECURSIVE MarshalRowsNoErrCheck(_, _, _)
MarshalRowsNoErrCheck(cursor, j, results) ==
    IF j > Len(cursor.rows)
    THEN returnJSONResult(results)
    ELSE IF cursor.scanFault = j
         THEN HardError("failed to scan row: " \o DecodeFault)
         ELSE MarshalRowsNoErrCheck(cursor, j + 1,
                                    GoAppend(results, RowMap(cursor.fields, cursor.rows[j])))

\* tools.go:97-115 (and 382-398): the loop from row j on, then rows.Err(),
\* then returnJSONResult
RECURSIVE MarshalRows(_, _, _)
MarshalRows(cursor, j, results) ==
    IF j > Len(cursor.rows)
    THEN IF cursor.err # NoErr
         THEN HardError("row iteration error: " \o cursor.err)
         ELSE returnJSONResult(results)
    ELSE IF cursor.scanFault = j
         THEN HardError("failed to scan row: " \o DecodeFault)
         ELSE MarshalRows(cursor, j + 1, GoAppend(results, RowMap(cursor.fields, cursor.rows[j])))

\* the text loop appending each line without its newline
RECURSIVE ConcatRowsNoNewline(_, _, _)
ConcatRowsNoNewline(cursor, j, output) ==
    IF j > Len(cursor.rows)
    THEN IF cursor.err # NoErr
         THEN HardError("row iteration error: " \o cursor.err)
         ELSE Triple(ToolResult(output, FALSE), StringData(output), NoErr)
    ELSE IF cursor.scanFault = j
         THEN HardError("failed to scan row: " \o DecodeFault)
         ELSE ConcatRowsNoNewline(cursor, j + 1, output \o cursor.rows[j][1].s)

\* tools.go:401-421: the loop of the text formats from row j on
RECURSIVE ConcatRows(_, _, _)
ConcatRows(cursor, j, output) ==
    IF j > Len(cursor.rows)
    THEN IF cursor.err # NoErr
         THEN HardError("row iteration error: " \o cursor.err)
         ELSE Triple(ToolResult(output, FALSE), StringData(output), NoErr)
    ELSE IF cursor.scanFault = j
         THEN HardError("failed to scan row: " \o DecodeFault)
         ELSE ConcatRows(cursor, j + 1, output \o cursor.rows[j][1].s \o "\n")

\* the map each catalog tool builds from the columns it scanned
CatalogRecord(tool, c) ==
    CASE tool = "list_tables" -> [table_name |-> c[1], table_type |-> c[2]]
      [] tool = "get_table_schema" ->
            addOptionalString(
                addOptionalString([column_name |-> c[1], data_type |-> c[2], is_nullable |-> c[4]],
                                  "max_length", c[3]),
                "default", c[5])
      [] tool = "get_table_constraints" ->
            addOptionalString(addOptionalString(addOptionalString(
            addOptionalString(addOptionalString(addOptionalString(
                [constraint_name |-> c[1], constraint_type |-> c[2]],
                "column_name", c[3]), "foreign_table_name", c[4]), "foreign_column_name", c[5]),
                "update_rule", c[6]), "delete_rule", c[7]), "check_clause", c[8])
      [] tool = "get_table_indexes" ->
            [index_name |-> c[1], index_type |-> c[3], is_unique |-> c[4], is_primary |-> c[5],
             column_name |-> c[6], column_position |-> c[7], index_definition |-> c[2]]

\* the loop of the four catalog tools from row j on: rows.Err() is not
\* consulted when Next() returns false
RECURSIVE CatalogLoop(_, _, _, _)
CatalogLoop(tool, cursor, j, results) ==
    IF j > Len(cursor.rows)
    THEN returnJSONResult(results)
    ELSE IF cursor.scanFault = j
         THEN HardError("failed to scan row: " \o DecodeFault)
         ELSE CatalogLoop(tool, cursor, j + 1, GoAppend(results, CatalogRecord(tool, cursor.rows[j])))

\* the message prefix of each catalog tool when pool.Query fails
CatalogFailure(tool) ==
    CASE tool = "list_tables" -> "failed to list tables: "
      [] tool = "get_table_schema" -> "failed to get table schema: "
      [] tool = "get_table_constraints" -> "failed to get table constraints: "
      [] tool = "get_table_indexes" -> "failed to get table indexes: "

(* ------------------------------ state ---------------------------------- *)

VARIABLES
    pool,       \* TRUE when the package variable `pool` is not nil
    table,      \* the committed contents of the user table
    pc,         \* per slot: where the invocation stands
    tool,       \* per slot: the tool that was called
    req,        \* per slot: the *mcp.CallToolRequest
    args,       \* per slot: the typed argument record
    before,     \* per slot: the committed contents when the call was made
    locals,     \* per slot: ExplainAnalyze's resolved flags and format
    issued,     \* per slot: the statement handed to Query
    tx,         \* per slot: the transaction of the invocation
    txTable,    \* per slot: the table as the open transaction sees it
    rows,       \* per slot: the cursor Query returned
    rowsState,  \* per slot: "none", "open" or "closed"
    ret,        \* per slot: the (result, data, err) returned
    trace,      \* per slot: the calls made on pool, tx and rows, in order
    main        \* func main: its position, environment, locals and server

vars == << pool, table, pc, tool, req, args, before, locals, issued, tx, txTable,
           rows, rowsState, ret, trace, main >>

NoStmt == Stmt("none", 0, 0, << >>)

\* the value of before[i] and txTable[i] while slot i holds no invocation
NoTable == [key \in Keys |-> 0]

NilReq == [isNil |-> TRUE, parses |-> FALSE, keys |-> {}]

\* a request whose Params.Arguments json.Unmarshal rejects
BadReq == [isNil |-> FALSE, parses |-> FALSE, keys |-> {}]

RawReq(keys) == [isNil |-> FALSE, parses |-> TRUE, keys |-> keys]

NoFlags == [f \in FlagNames |-> FALSE]

NoArgs == [Query |-> NoStmt, Schema |-> "", TableName |-> "", flags |-> NoFlags, Format |-> ""]

QueryArgs(stmt) == [NoArgs EXCEPT !.Query = stmt]

TableArgs(schema, name) == [NoArgs EXCEPT !.Schema = schema, !.TableName = name]

ExplainAnalyzeArgs(stmt, flags, format) ==
    [NoArgs EXCEPT !.Query = stmt, !.flags = flags, !.Format = format]

NoLocals == [flags |-> NoFlags, format |-> ""]

NoIssued == [sql |-> "", options |-> << >>, stmt |-> NoStmt, params |-> << >>]

\* format strings a caller may send: the four recognised ones, none, another
Formats == {"", "text", "json", "xml", "yaml", "csv"}

\* requests over a set of flag names: absent, unparsable, or any set of keys
Reqs(names) == {NilReq, BadReq} \cup { RawReq(K) : K \in SUBSET names }

\* typed flag values over a set of flag names, the other flags being false
FlagArgs(names) == { [f \in FlagNames |-> f \in S] : S \in SUBSET names }

\* the serial specification calls ExplainAnalyze with every statement shape
\* and every format, and varies the analyze flag only: that flag decides
\* whether the statement runs
SerialFlags == {"analyze"}

SerialReqs == { NilReq } \cup { RawReq(K) : K \in SUBSET SerialFlags }

ExplainStmts == { stmt \in Stmts : stmt.op = "select" => stmt.list = PlainList /\ stmt.key = 0 }

\* the option specification calls ExplainAnalyze with every request and
\* every typed flag record, on one statement
OptionStmts == { Stmt("malformed", 0, 0, << >>) }

\* the slot the serial specification uses: one invocation at a time
Serial == {1}

\* the two environment variables main reads
Env(databaseURL, postgresURL) == [DATABASE_URL |-> databaseURL, POSTGRES_URL |-> postgresURL]

\* func main at a given line, with its locals and the tools added so far
Main(at, env, connStr, steps, tools, exit) ==
    [pc |-> at, env |-> env, connStr |-> connStr, steps |-> steps, tools |-> tools,
     exit |-> exit]

\* main does not run: the handlers are called directly, as the tests do
MainOff == Main("off", Env("", ""), "", << >>, << >>, 0)

\* no invocation in any slot
SlotsIdle ==
    /\ pc = [i \in Calls |-> "idle"]
    /\ tool = [i \in Calls |-> "none"]
    /\ req = [i \in Calls |-> NilReq]
    /\ args = [i \in Calls |-> NoArgs]
    /\ before = [i \in Calls |-> NoTable]
    /\ locals = [i \in Calls |-> NoLocals]
    /\ issued = [i \in Calls |-> NoIssued]
    /\ tx = [i \in Calls |-> "none"]
    /\ txTable = [i \in Calls |-> NoTable]
    /\ rows = [i \in Calls |-> NoCursor]
    /\ rowsState = [i \in Calls |-> "none"]
    /\ ret = [i \in Calls |-> NoReturn]
    /\ trace = [i \in Calls |-> << >>]

Init ==
    /\ pool \in BOOLEAN
    /\ table \in Tables
    /\ SlotsIdle
    /\ main = MainOff

(* ----------------------------- entry steps ------------------------------ *)

\* a handler that takes the pool handle to be set whatever it holds
PoolNeverNil(p) == FALSE

\* the test `pool == nil` every handler starts with, tools.go:82, 119, 152,
\* 198, 262, 315
PoolIsNil(p) == ~p

\* what the handler returns when that test succeeds
NotConnected == HardError("database not connected")

\* a call arrives: the handler is entered with its request and arguments
Enter(i, t, r, a) ==
    /\ pc[i] = "idle"
    /\ tool' = [tool EXCEPT ![i] = t]
    /\ req' = [req EXCEPT ![i] = r]
    /\ args' = [args EXCEPT ![i] = a]
    /\ before' = [before EXCEPT ![i] = table]
    /\ UNCHANGED << main, pool, table, tx, txTable, rows, rowsState, trace >>

\* ExecuteQuery up to its pool.Query call, tools.go:81-86
ExecuteQuery(i) ==
    /\ pc[i] = "idle"
    /\ \E stmt \in Stmts :
        /\ Enter(i, "query", NilReq, QueryArgs(stmt))
        /\ IF PoolIsNil(pool)
           THEN /\ ret' = [ret EXCEPT ![i] = NotConnected]
                /\ pc' = [pc EXCEPT ![i] = "done"]
                /\ UNCHANGED issued
           ELSE /\ issued' = [issued EXCEPT ![i] = [NoIssued EXCEPT !.stmt = stmt]]
                /\ pc' = [pc EXCEPT ![i] = "query"]
                /\ UNCHANGED ret
        /\ UNCHANGED locals

\* a catalog tool up to its pool.Query call: the fixed statement of the tool
\* with getSchema(args.Schema) as $1 and, except for ListTables, the table
\* name as $2
CatalogParams(t, a) ==
    IF t = "list_tables" THEN << getSchema(a.Schema) >>
    ELSE << getSchema(a.Schema), a.TableName >>

CatalogEntry(i, t, a) ==
    /\ Enter(i, t, NilReq, a)
    /\ IF PoolIsNil(pool)
       THEN /\ ret' = [ret EXCEPT ![i] = NotConnected]
            /\ pc' = [pc EXCEPT ![i] = "done"]
            /\ UNCHANGED issued
       ELSE /\ issued' = [issued EXCEPT ![i] = [NoIssued EXCEPT !.sql = t, !.params = CatalogParams(t, a)]]
            /\ pc' = [pc EXCEPT ![i] = "catalog"]
            /\ UNCHANGED ret
    /\ UNCHANGED locals

ListTables(i) ==
    /\ pc[i] = "idle"
    /\ \E schema \in Schemas : CatalogEntry(i, "list_tables", TableArgs(schema, ""))

GetTableSchema(i) ==
    /\ pc[i] = "idle"
    /\ \E schema \in Schemas, name \in TableNames :
        CatalogEntry(i, "get_table_schema", TableArgs(schema, name))

GetTableConstraints(i) ==
    /\ pc[i] = "idle"
    /\ \E schema \in Schemas, name \in TableNames :
        CatalogEntry(i, "get_table_constraints", TableArgs(schema, name))

GetTableIndexes(i) ==
    /\ pc[i] = "idle"
    /\ \E schema \in Schemas, name \in TableNames :
        CatalogEntry(i, "get_table_indexes", TableArgs(schema, name))

\* ExplainAnalyze up to its pool.Begin call, tools.go:314-360
ExplainEntry(i, r, a) ==
    LET flags == ResolveFlags(r, a)
        format == ResolveFormat(a.Format)
        options == BuildOptions(flags, format)
    IN  /\ Enter(i, "explain_analyze", r, a)
        /\ IF PoolIsNil(pool)
           THEN /\ ret' = [ret EXCEPT ![i] = NotConnected]
                /\ pc' = [pc EXCEPT ![i] = "done"]
                /\ UNCHANGED << issued, locals >>
           ELSE /\ locals' = [locals EXCEPT ![i] = [flags |-> flags, format |-> format]]
                /\ issued' = [issued EXCEPT ![i] =
                                 [sql |-> ExplainPrefix(options), options |-> options,
                                  stmt |-> a.Query, params |-> << >>]]
                /\ pc' = [pc EXCEPT ![i] = "begin"]
                /\ UNCHANGED ret

ExplainAnalyze(i) ==
    /\ pc[i] = "idle"
    /\ \E r \in SerialReqs, fl \in FlagArgs(SerialFlags), stmt \in ExplainStmts, f \in Formats :
        ExplainEntry(i, r, ExplainAnalyzeArgs(stmt, fl, f))

\* the same handler, called with every combination of raw keys and typed flags
ExplainAnalyzeFlags(i) ==
    /\ pc[i] = "idle"
    /\ \E r \in Reqs(FlagNames), fl \in FlagArgs(FlagNames), stmt \in OptionStmts, f \in Formats :
        ExplainEntry(i, r, ExplainAnalyzeArgs(stmt, fl, f))

(* ------------------------- database steps ------------------------------- *)

Record(i, event) == trace' = [trace EXCEPT ![i] = Append(@, event)]

Returns(i, triple) == ret' = [ret EXCEPT ![i] = triple]

Goto(i, label) == pc' = [pc EXCEPT ![i] = label]

\* pool.Query of ExecuteQuery, tools.go:86-95.  The statement runs on the
\* pool outside any transaction: what it changes is committed when it ends.
PoolQuery(i) ==
    /\ pc[i] = "query"
    /\ Record(i, "pool.Query")
    /\ LET stmt == issued[i].stmt
       IN  \/ \* the statement does not parse: Query returns the error
              /\ ParseError(stmt) # NoErr
              /\ Returns(i, FlaggedResult("Query error: " \o ParseError(stmt)))
              /\ Goto(i, "done")
              /\ UNCHANGED << table, rows, rowsState >>
           \/ \* the connection fails: Query returns the error
              /\ Returns(i, FlaggedResult("Query error: " \o ConnLost))
              /\ Goto(i, "done")
              /\ UNCHANGED << table, rows, rowsState >>
           \/ \* the engine rejects the statement while executing it
              /\ ParseError(stmt) = NoErr
              /\ ExecError(stmt, table) # NoErr
              /\ rows' = [rows EXCEPT ![i] = RejectedCursor(ExecFields(stmt), ExecError(stmt, table))]
              /\ rowsState' = [rowsState EXCEPT ![i] = "open"]
              /\ Goto(i, "rows")
              /\ UNCHANGED << table, ret >>
           \/ \* the statement executes
              /\ ParseError(stmt) = NoErr
              /\ ExecError(stmt, table) = NoErr
              /\ table' = ExecTable(stmt, table)
              /\ \E c \in CursorsOf(ExecFields(stmt), ExecRows(stmt, table)) :
                    rows' = [rows EXCEPT ![i] = c]
              /\ rowsState' = [rowsState EXCEPT ![i] = "open"]
              /\ Goto(i, "rows")
              /\ UNCHANGED ret
    /\ UNCHANGED << main, pool, tool, req, args, before, locals, issued, tx, txTable >>

\* a catalog tool reporting the failure of its query as ExecuteQuery does
CatalogQueryFailedFlagged(t, err) == FlaggedResult(CatalogFailure(t) \o err)

\* what a catalog tool returns when pool.Query returns an error,
\* tools.go:131-133, 169-171, 230-232, 285-287
CatalogQueryFailed(t, err) == HardError(CatalogFailure(t) \o err)

\* pool.Query of the four catalog tools, tools.go:130-134, 168-172, 229-233,
\* 284-288
CatalogQuery(i) ==
    /\ pc[i] = "catalog"
    /\ Record(i, "pool.Query")
    /\ \/ /\ Returns(i, CatalogQueryFailed(tool[i], ConnLost))
          /\ Goto(i, "done")
          /\ UNCHANGED << rows, rowsState >>
       \/ /\ \E c \in CursorsOf(<< >>, CatalogRows(tool[i], issued[i].params)) :
                rows' = [rows EXCEPT ![i] = c]
          /\ rowsState' = [rowsState EXCEPT ![i] = "open"]
          /\ Goto(i, "rows")
          /\ UNCHANGED ret
    /\ UNCHANGED << main, pool, table, tool, req, args, before, locals, issued, tx, txTable >>

\* one transaction handle kept in a package variable and used by every
\* invocation
TxShared(i) == 1

\* the transaction invocation i works on: the one pool.Begin returned into
\* its local variable `tx`, tools.go:362; handles are named after the slot
TxOf(i) == i

\* pool.Begin of ExplainAnalyze, tools.go:362-367
PoolBegin(i) ==
    /\ pc[i] = "begin"
    /\ \/ /\ tx' = [tx EXCEPT ![TxOf(i)] = "open"]
          /\ Record(i, "pool.Begin")
          /\ Goto(i, "txquery")
          /\ UNCHANGED ret
       \/ /\ Returns(i, HardError("failed to begin transaction: " \o ConnLost))
          /\ Record(i, "pool.Begin failed")
          /\ Goto(i, "done")
          /\ UNCHANGED tx
    /\ UNCHANGED << main, pool, table, tool, req, args, before, locals, issued, txTable,
                    rows, rowsState >>

\* the rollback issued on the success paths only: the error return leaves
\* the handler at once
AfterExplainErrorNoRollback == "done"

\* where ExplainAnalyze goes when tx.Query fails: the rollback deferred at
\* tools.go:367 is the only deferred call
AfterExplainError == "rollback"

\* tx.Query of ExplainAnalyze, tools.go:369-379.  The statement runs inside
\* the transaction: what it changes is seen by the transaction only.
TxQuery(i) ==
    /\ pc[i] = "txquery"
    /\ Record(i, "tx.Query")
    /\ LET stmt == issued[i].stmt
           options == issued[i].options
           runs == OptAnalyze(options)
       IN  \/ /\ ExplainParseError(options, stmt) # NoErr
              /\ Returns(i, FlaggedResult("EXPLAIN error: " \o ExplainParseError(options, stmt)))
              /\ tx' = [tx EXCEPT ![TxOf(i)] = "aborted"]
              /\ Goto(i, AfterExplainError)
              /\ UNCHANGED << txTable, rows, rowsState >>
           \/ /\ Returns(i, FlaggedResult("EXPLAIN error: " \o ConnLost))
              /\ tx' = [tx EXCEPT ![TxOf(i)] = "aborted"]
              /\ Goto(i, AfterExplainError)
              /\ UNCHANGED << txTable, rows, rowsState >>
           \/ /\ ExplainParseError(options, stmt) = NoErr
              /\ runs
              /\ ExecError(stmt, table) # NoErr
              /\ rows' = [rows EXCEPT ![i] = RejectedCursor(<< "QUERY PLAN" >>, ExecError(stmt, table))]
              /\ rowsState' = [rowsState EXCEPT ![i] = "open"]
              /\ tx' = [tx EXCEPT ![TxOf(i)] = "aborted"]
              /\ Goto(i, "rows")
              /\ UNCHANGED << txTable, ret >>
           \/ /\ ExplainParseError(options, stmt) = NoErr
              /\ runs => ExecError(stmt, table) = NoErr
              /\ txTable' = [txTable EXCEPT ![TxOf(i)] = IF runs THEN ExecTable(stmt, table) ELSE table]
              /\ \E c \in CursorsOf(<< "QUERY PLAN" >>, PlanRows(options, stmt)) :
                    rows' = [rows EXCEPT ![i] = c]
              /\ rowsState' = [rowsState EXCEPT ![i] = "open"]
              /\ Goto(i, "rows")
              /\ UNCHANGED << tx, ret >>
    /\ UNCHANGED << main, pool, table, tool, req, args, before, locals, issued >>

\* deferred calls run in the order they were deferred: ExplainAnalyze
\* rolls back first
AfterRowsRollbackFirst(t) == IF t = "explain_analyze" THEN "rollback" ELSE "close"

\* the first deferred call to run once the return statement is evaluated:
\* rows.Close(), deferred last (tools.go:95, 134, 172, 233, 288, 379)
AfterRows(t) == "close"

\* the row loop of the handler and its return statement; the deferred calls
\* run after it
Iterate(i) ==
    /\ pc[i] = "rows"
    /\ Returns(i,
          CASE tool[i] = "query" -> MarshalRows(rows[i], 1, NilSlice)
            [] tool[i] = "explain_analyze" ->
                  IF locals[i].format = "json"
                  THEN MarshalRows(rows[i], 1, NilSlice)
                  ELSE ConcatRows(rows[i], 1, "")
            [] OTHER -> CatalogLoop(tool[i], rows[i], 1, NilSlice))
    /\ Goto(i, AfterRows(tool[i]))
    /\ UNCHANGED << main, pool, table, tool, req, args, before, locals, issued, tx, txTable,
                    rows, rowsState, trace >>

\* every handler ending with a rollback
AfterCloseRollback(t) == "rollback"

\* where a handler goes after its deferred rows.Close(): ExplainAnalyze has
\* the rollback deferred before it, the other handlers return
AfterClose(t) == IF t = "explain_analyze" THEN "rollback" ELSE "done"

\* the deferred rows.Close(), tools.go:95, 134, 172, 233, 288, 379
RowsClose(i) ==
    /\ pc[i] = "close"
    /\ rowsState' = [rowsState EXCEPT ![i] = "closed"]
    /\ Record(i, "rows.Close")
    /\ Goto(i, AfterClose(tool[i]))
    /\ UNCHANGED << main, pool, table, tool, req, args, before, locals, issued, tx, txTable,
                    rows, ret >>

\* a transaction ended by COMMIT instead: what it wrote becomes the table
EndOfTxCommit(committed, seenByTx) == seenByTx

\* the committed table once the transaction has ended by ROLLBACK (or by
\* the loss of its connection): what the transaction wrote is dropped
EndOfTx(committed, seenByTx) == committed

\* a handler that returns the error of its rollback in place of its result
DeferredRollbackSurfaced(triple, failed) ==
    IF failed THEN HardError("failed to rollback: " \o ConnLost) ELSE triple

\* what the handler returns once the deferred tx.Rollback(ctx) has run,
\* tools.go:367: the results are unnamed and the value of the deferred call
\* is discarded, so the triple of the return statement stands
DeferredRollback(triple, failed) == triple

\* the deferred tx.Rollback(ctx), tools.go:367; its error is dropped
TxRollback(i) ==
    /\ pc[i] = "rollback"
    /\ table' = EndOfTx(table, txTable[TxOf(i)])
    /\ tx' = [tx EXCEPT ![TxOf(i)] = "rolledback"]
    /\ \E failed \in BOOLEAN :
          /\ Record(i, IF failed THEN "tx.Rollback failed" ELSE "tx.Rollback")
          /\ Returns(i, DeferredRollback(ret[i], failed))
    /\ Goto(i, "done")
    /\ UNCHANGED << main, pool, tool, req, args, before, locals, issued, txTable, rows,
                    rowsState >>

\* the harness takes the returned triple; the slot is free again
Return(i) ==
    /\ pc[i] = "done"
    /\ pc' = [pc EXCEPT ![i] = "idle"]
    /\ tool' = [tool EXCEPT ![i] = "none"]
    /\ req' = [req EXCEPT ![i] = NilReq]
    /\ args' = [args EXCEPT ![i] = NoArgs]
    /\ before' = [before EXCEPT ![i] = NoTable]
    /\ locals' = [locals EXCEPT ![i] = NoLocals]
    /\ issued' = [issued EXCEPT ![i] = NoIssued]
    /\ tx' = [tx EXCEPT ![i] = "none"]
    /\ txTable' = [txTable EXCEPT ![i] = NoTable]
    /\ rows' = [rows EXCEPT ![i] = NoCursor]
    /\ rowsState' = [rowsState EXCEPT ![i] = "none"]
    /\ ret' = [ret EXCEPT ![i] = NoReturn]
    /\ trace' = [trace EXCEPT ![i] = << >>]
    /\ UNCHANGED << main, pool, table >>

(* ------------------------------ func main ------------------------------- *)

slots == << pc, tool, req, args, before, locals, issued, tx, txTable, rows, rowsState,
            ret, trace >>

\* connection strings pgxpool.ParseConfig accepts
ParsableURLs == {"postgres://primary", "postgres://fallback"}

\* the environments the process is started in: neither variable set, only
\* POSTGRES_URL set, both set, DATABASE_URL set to a string that is no URL
Envs == { Env("", ""),
          Env("", "postgres://fallback"),
          Env("postgres://primary", "postgres://fallback"),
          Env("not a url", "postgres://fallback") }

\* the six mcp.AddTool calls, in the order main makes them
ToolOrder == << "get_table_schema", "query", "list_tables", "get_table_constraints",
                "get_table_indexes", "explain_analyze" >>

\* the lookup with POSTGRES_URL consulted first
ConnStrFallbackFirst(env) ==
    IF env.POSTGRES_URL # "" THEN env.POSTGRES_URL ELSE env.DATABASE_URL

\* part_000:13-16: DATABASE_URL, and POSTGRES_URL when that is empty
ConnStr(env) ==
    IF env.DATABASE_URL # "" THEN env.DATABASE_URL ELSE env.POSTGRES_URL

\* main has passed a step and stands at the next one
Passed(m, step, at) == [m EXCEPT !.pc = at, !.steps = Append(@, step)]

\* log.Fatal / log.Fatalf: the process exits with status 1 at once
LogFatal(m, step) ==
    [m EXCEPT !.pc = "exited", !.steps = Append(@, step \o " failed"), !.exit = 1]

\* part_000:13-19
GetConnStr ==
    /\ main.pc = "getenv"
    /\ LET m == [main EXCEPT !.connStr = ConnStr(main.env)]
       IN  main' = IF m.connStr = "" THEN LogFatal(m, "os.Getenv")
                   ELSE Passed(m, "os.Getenv", "parse")
    /\ UNCHANGED << pool, table, slots >>

\* part_000:21-24
ParseConfig ==
    /\ main.pc = "parse"
    /\ main' = IF main.connStr \in ParsableURLs
               THEN Passed(main, "pgxpool.ParseConfig", "newpool")
               ELSE LogFatal(main, "pgxpool.ParseConfig")
    /\ UNCHANGED << pool, table, slots >>

\* part_000:26-31: the package variable is assigned whatever NewWithConfig
\* returns
NewWithConfig ==
    /\ main.pc = "newpool"
    /\ \E ok \in BOOLEAN :
          /\ pool' = ok
          /\ main' = IF ok THEN Passed(main, "pgxpool.NewWithConfig", "ping")
                     ELSE LogFatal(main, "pgxpool.NewWithConfig")
    /\ UNCHANGED << table, slots >>

\* part_000:33-37
Ping ==
    /\ main.pc = "ping"
    /\ \E ok \in BOOLEAN :
          main' = IF ok THEN Passed(main, "pool.Ping", "register")
                  ELSE LogFatal(main, "pool.Ping")
    /\ UNCHANGED << pool, table, slots >>

\* part_000:39-73: the server is made and the next tool is added to it
AddTool ==
    /\ main.pc = "register"
    /\ Len(main.tools) < Len(ToolOrder)
    /\ main' = [main EXCEPT !.tools = Append(@, ToolOrder[Len(@) + 1])]
    /\ UNCHANGED << pool, table, slots >>

\* part_000:75: server.Run starts serving the standard input
ServerRun ==
    /\ main.pc = "register"
    /\ Len(main.tools) = Len(ToolOrder)
    /\ main' = Passed(main, "server.Run", "serving")
    /\ UNCHANGED << pool, table, slots >>

\* part_000:75-78: server.Run returns when the transport closes, with or
\* without an error
Shutdown ==
    /\ main.pc = "serving"
    /\ \A i \in Calls : pc[i] = "idle"
    /\ \E status \in {0, 1} : main' = [main EXCEPT !.pc = "exited", !.exit = status]
    /\ UNCHANGED << pool, table, slots >>

\* the server dispatches a call to the handler registered under name t
Served(t) ==
    /\ main.pc = "serving"
    /\ \E j \in 1..Len(main.tools) : main.tools[j] = t

ServeQuery(i) == Served("query") /\ ExecuteQuery(i)

ServeListTables(i) == Served("list_tables") /\ ListTables(i)

ServeGetTableSchema(i) == Served("get_table_schema") /\ GetTableSchema(i)

ServeGetTableConstraints(i) == Served("get_table_constraints") /\ GetTableConstraints(i)

ServeGetTableIndexes(i) == Served("get_table_indexes") /\ GetTableIndexes(i)

ServeExplainAnalyze(i) == Served("explain_analyze") /\ ExplainAnalyze(i)

(* --------------------------- specification ------------------------------ *)

Next ==
    \/ \E i \in Serial : ExecuteQuery(i)
    \/ \E i \in Serial : ListTables(i)
    \/ \E i \in Serial : GetTableSchema(i)
    \/ \E i \in Serial : GetTableConstraints(i)
    \/ \E i \in Serial : GetTableIndexes(i)
    \/ \E i \in Serial : ExplainAnalyze(i)
    \/ \E i \in Serial : PoolQuery(i)
    \/ \E i \in Serial : CatalogQuery(i)
    \/ \E i \in Serial : PoolBegin(i)
    \/ \E i \in Serial : TxQuery(i)
    \/ \E i \in Serial : Iterate(i)
    \/ \E i \in Serial : RowsClose(i)
    \/ \E i \in Serial : TxRollback(i)
    \/ \E i \in Serial : Return(i)

Spec == Init /\ [][Next]_vars

\* ExplainAnalyze alone, on a connected pool, over all its option inputs
InitOptions ==
    /\ Init
    /\ pool = TRUE
    /\ table = NoTable

NextOptions ==
    \/ \E i \in Serial : ExplainAnalyzeFlags(i)
    \/ \E i \in Serial : PoolBegin(i)
    \/ \E i \in Serial : TxQuery(i)
    \/ \E i \in Serial : TxRollback(i)
    \/ \E i \in Serial : Return(i)

SpecOptions == InitOptions /\ [][NextOptions]_vars

\* concurrent ExplainAnalyze calls on one connected pool, each explaining
\* (and, ANALYZE being the default, running) a statement that writes row 1
ConcurrentStmts == { Stmt("insert", 1, 1, << >>), Stmt("update", 1, 2, << >>) }

\* the table before the calls: empty, or holding row 1
ConcurrentTables == { NoTable, [NoTable EXCEPT ![1] = 1] }

ExplainAnalyzeConcurrent(i) ==
    /\ pc[i] = "idle"
    /\ \E stmt \in ConcurrentStmts :
          ExplainEntry(i, NilReq, ExplainAnalyzeArgs(stmt, NoFlags, "json"))

InitConcurrent ==
    /\ pool = TRUE
    /\ table \in ConcurrentTables
    /\ SlotsIdle
    /\ main = MainOff

NextConcurrent ==
    \/ \E i \in Calls : ExplainAnalyzeConcurrent(i)
    \/ \E i \in Calls : PoolBegin(i)
    \/ \E i \in Calls : TxQuery(i)
    \/ \E i \in Calls : Iterate(i)
    \/ \E i \in Calls : RowsClose(i)
    \/ \E i \in Calls : TxRollback(i)
    \/ \E i \in Calls : Return(i)

SpecConcurrent == InitConcurrent /\ [][NextConcurrent]_vars

\* the process from its start: main runs, then the server dispatches calls
InitMain ==
    /\ pool = FALSE
    /\ table \in Tables
    /\ SlotsIdle
    /\ main \in { Main("getenv", e, "", << >>, << >>, 0) : e \in Envs }

NextMain ==
    \/ GetConnStr
    \/ ParseConfig
    \/ NewWithConfig
    \/ Ping
    \/ AddTool
    \/ ServerRun
    \/ Shutdown
    \/ \E i \in Serial : ServeQuery(i)
    \/ \E i \in Serial : ServeListTables(i)
    \/ \E i \in Serial : ServeGetTableSchema(i)
    \/ \E i \in Serial : ServeGetTableConstraints(i)
    \/ \E i \in Serial : ServeGetTableIndexes(i)
    \/ \E i \in Serial : ServeExplainAnalyze(i)
    \/ \E i \in Serial : PoolQuery(i)
    \/ \E i \in Serial : CatalogQuery(i)
    \/ \E i \in Serial : PoolBegin(i)
    \/ \E i \in Serial : TxQuery(i)
    \/ \E i \in Serial : Iterate(i)
    \/ \E i \in Serial : RowsClose(i)
    \/ \E i \in Serial : TxRollback(i)
    \/ \E i \in Serial : Return(i)

SpecMain == InitMain /\ [][NextMain]_vars

TypeOK ==
    /\ pool \in BOOLEAN
    /\ table \in Tables
    /\ main.pc \in {"off", "getenv", "parse", "newpool", "ping", "register", "serving", "exited"}
    /\ \A i \in Calls :
          /\ pc[i] \in {"idle", "query", "catalog", "begin", "txquery", "rows", "close", "rollback", "done"}
          /\ tool[i] \in Tools \cup {"none"}
          /\ tx[i] \in {"none", "open", "aborted", "rolledback"}
          /\ rowsState[i] \in {"none", "open", "closed"}

(* ------------------------------ properties ------------------------------ *)

InTrace(i, event) == \E j \in 1..Len(trace[i]) : trace[i][j] = event

LastEvent(i) == trace[i][Len(trace[i])]

Rollbacks == {"tx.Rollback", "tx.Rollback failed"}

\* the handler of slot i has returned
Returned(i) == pc[i] = "done"

\* a non-nil result without the error flag and a nil error
Success(i) == ~ret[i].result.isNil /\ ~ret[i].result.IsError /\ ret[i].err = NoErr

\* a non-nil result with the error flag and a non-empty text, and a nil error
Flagged(i) ==
    /\ ~ret[i].result.isNil
    /\ ret[i].result.IsError
    /\ ret[i].result.Text # ""
    /\ ret[i].err = NoErr

\* slot i runs ExplainAnalyze and got past the pool check
Explaining(i) == tool[i] = "explain_analyze" /\ issued[i].options # << >>

\* C1: whatever statement ExplainAnalyze is given, and whether it succeeds or
\* fails, the committed contents of the table when ExplainAnalyze has
\* returned are the contents at the time it was called.
C1_RollbackIsolation ==
    \A i \in Calls :
        (tool[i] = "explain_analyze" /\ Returned(i)) => table = before[i]

\* an INSERT was explained with ANALYZE, changed the table inside the
\* transaction, and the handler returned its plan
C1_Witness ==
    \E i \in Calls :
        /\ tool[i] = "explain_analyze" /\ Returned(i) /\ Success(i)
        /\ issued[i].stmt.op = "insert"
        /\ txTable[i] # before[i]
        /\ table = before[i]

\* C2: an ExplainAnalyze invocation whose transaction began has, when it
\* returns, issued exactly one rollback of it, as its last database call, on
\* every exit path, and has issued no commit.
C2_AlwaysRolledBack ==
    \A i \in Calls :
        (tool[i] = "explain_analyze" /\ Returned(i) /\ InTrace(i, "pool.Begin")) =>
            /\ LastEvent(i) \in Rollbacks
            /\ Cardinality({ j \in 1..Len(trace[i]) : trace[i][j] \in Rollbacks }) = 1
            /\ tx[i] = "rolledback"
            /\ ~InTrace(i, "tx.Commit")

\* the scan-failure exit: a hard error after rows were opened, rolled back
C2_Witness ==
    \E i \in Calls :
        /\ tool[i] = "explain_analyze" /\ Returned(i)
        /\ ret[i].err = "failed to scan row: " \o DecodeFault
        /\ trace[i] = << "pool.Begin", "tx.Query", "rows.Close", "tx.Rollback" >>
        /\ tx[i] = "rolledback"

\* the caller supplied analyze=false and no timing in the raw arguments
SuppliesAnalyzeFalse(i) ==
    /\ ~req[i].isNil /\ req[i].parses
    /\ "analyze" \in req[i].keys
    /\ "timing" \notin req[i].keys
    /\ ~args[i].flags["analyze"]

\* C3: when the caller explicitly supplies analyze=false and omits timing,
\* the option clause holds "ANALYZE false" and no TIMING option.
C3_AnalyzeFalseOmitsTiming ==
    \A i \in Calls :
        (Explaining(i) /\ SuppliesAnalyzeFalse(i)) =>
            /\ "ANALYZE false" \in OptionSet(issued[i].options)
            /\ "ANALYZE true" \notin OptionSet(issued[i].options)
            /\ "TIMING true" \notin OptionSet(issued[i].options)
            /\ "TIMING false" \notin OptionSet(issued[i].options)

\* analyze=false was supplied with timing omitted and the statement was sent
C3_Witness ==
    \E i \in Calls :
        /\ Explaining(i) /\ SuppliesAnalyzeFalse(i)
        /\ InTrace(i, "tx.Query")
        /\ issued[i].options[1] = "ANALYZE false"

\* the caller supplied flag f in the raw arguments of slot i
Supplied(i, f) == ~req[i].isNil /\ req[i].parses /\ f \in req[i].keys

\* C4: each of the six flags resolves to the supplied value when the caller
\* supplied the field, an explicit false included, and to its default
\* (analyze, costs, timing, summary true; buffers, verbose false) when the
\* caller omitted it.
C4_PresenceAwareDefaults ==
    \A i \in Calls :
        Explaining(i) =>
            \A f \in {"analyze", "verbose", "costs", "buffers", "timing", "summary"} :
                locals[i].flags[f] =
                    IF Supplied(i, f) THEN args[i].flags[f]
                    ELSE f \in {"analyze", "costs", "timing", "summary"}

\* a call that supplies costs=false and buffers=true and omits the others
C4_Witness ==
    \E i \in Calls :
        /\ Explaining(i)
        /\ req[i] = RawReq({"costs", "buffers"})
        /\ ~args[i].flags["costs"] /\ args[i].flags["buffers"]
        /\ ~locals[i].flags["costs"] /\ locals[i].flags["buffers"]
        /\ locals[i].flags["analyze"] /\ ~locals[i].flags["verbose"]

FormatOptions(i) ==
    { o \in OptionSet(issued[i].options) : \E f \in Formats : o = "FORMAT " \o f }

\* C5: a format that is not text, json, xml or yaml (the empty one included)
\* makes ExplainAnalyze send FORMAT json and return a row sequence, not a
\* string; each of the four recognised formats is sent unchanged.
C5_FormatFallback ==
    \A i \in Calls :
        Explaining(i) =>
            /\ args[i].Format \notin {"text", "json", "xml", "yaml"} =>
                  /\ FormatOptions(i) = {"FORMAT json"}
                  /\ (Returned(i) /\ Success(i)) => ret[i].data.kind = "slice"
            /\ args[i].Format \in {"text", "json", "xml", "yaml"} =>
                  FormatOptions(i) = {"FORMAT " \o args[i].Format}

\* an unrecognised format was given and the plan came back as one record
C5_Witness ==
    \E i \in Calls :
        /\ Explaining(i) /\ Returned(i) /\ Success(i)
        /\ args[i].Format = "csv"
        /\ ret[i].data.kind = "slice"
        /\ Len(ret[i].data.elems) = 1

\* the engine rejects the statement of slot i on the table as it was when
\* the call was made: it does not parse, or it violates a constraint
Rejected(i) ==
    \/ ParseError(issued[i].stmt) # NoErr
    \/ ExecError(issued[i].stmt, before[i]) # NoErr

\* C6: when the database rejects the statement passed to ExecuteQuery
\* (malformed SQL, constraint violation), ExecuteQuery returns a non-nil
\* result with the error flag set and a non-empty message, and a nil error;
\* it never returns a propagated error for such a fault.
C6_ErrorContainment ==
    \A i \in Calls :
        (tool[i] = "query" /\ Returned(i) /\ InTrace(i, "pool.Query") /\ Rejected(i)) =>
            Flagged(i)

\* the EXPLAIN statement of slot i was sent and the engine rejected it: the
\* statement does not parse, or ANALYZE ran it into a constraint violation
ExplainRejected(i) ==
    /\ InTrace(i, "tx.Query")
    /\ \/ ExplainParseError(issued[i].options, issued[i].stmt) # NoErr
       \/ OptAnalyze(issued[i].options) /\ ExecError(issued[i].stmt, before[i]) # NoErr

\* C7: when the EXPLAIN statement itself fails inside ExplainAnalyze, the
\* tool returns an error-flagged result with the engine's message and a nil
\* error, not a hard failure, and the transaction is still rolled back
\* before the invocation returns.
C7_ExplainErrorFlagged ==
    \A i \in Calls :
        (Explaining(i) /\ Returned(i) /\ ExplainRejected(i)) =>
            /\ Flagged(i)
            /\ LastEvent(i) \in Rollbacks

\* the handler of slot i read a result of zero rows as rows, to the end
ZeroRows(i) ==
    /\ tool[i] \in Tools
    /\ tool[i] = "explain_analyze" => locals[i].format = "json"
    /\ rowsState[i] # "none"
    /\ rows[i].rows = << >> /\ rows[i].err = NoErr

\* C8: when a statement run through the query tool, a catalog tool or
\* explain with format json matches zero rows, the returned data payload is
\* an empty sequence, never a null or absent one.
C8_EmptyResultIsSequence ==
    \A i \in Calls :
        (Returned(i) /\ ZeroRows(i)) =>
            /\ Success(i)
            /\ ret[i].data.kind = "slice"
            /\ ~ret[i].data.nilSlice
            /\ ret[i].data.elems = << >>
            /\ ret[i].result.Text = "[]"

\* C9: each catalog tool called with schema "" issues the statement and the
\* parameters it issues for schema "public", and is answered from the
\* catalog of "public"; a non-empty schema is passed on unchanged.
C9_SchemaDefault ==
    \A i \in Calls :
        (tool[i] \in CatalogTools /\ pc[i] # "idle" /\ issued[i] # NoIssued) =>
            /\ issued[i].sql = tool[i]
            /\ issued[i].params[1] = (IF args[i].Schema = "" THEN "public" ELSE args[i].Schema)
            /\ tool[i] # "list_tables" => issued[i].params = << issued[i].params[1], args[i].TableName >>
            /\ (args[i].Schema = "" /\ rowsState[i] # "none") =>
                  rows[i] \in CursorsOf(<< >>,
                      CatalogRows(tool[i],
                          IF tool[i] = "list_tables" THEN << "public" >>
                          ELSE << "public", args[i].TableName >>))

\* ListTables with schema "" returned the one table of schema public
C9_Witness ==
    \E i \in Calls :
        /\ tool[i] = "list_tables" /\ Returned(i) /\ Success(i)
        /\ args[i].Schema = ""
        /\ Len(ret[i].data.elems) = 1
        /\ ret[i].data.elems[1]["table_name"] = StrCell("t")

\* C10: ExecuteQuery runs the statement on the pool with no transaction
\* opened and no rollback issued, and what a statement that succeeded
\* changed is the committed table when the call has returned.
C10_QueryCommits ==
    \A i \in Calls :
        tool[i] = "query" =>
            /\ tx[i] = "none"
            /\ \A j \in 1..Len(trace[i]) : trace[i][j] \in {"pool.Query", "rows.Close"}
            /\ (Returned(i) /\ Success(i)) => table = ExecTable(issued[i].stmt, before[i])

\* an INSERT through the query tool succeeded and its row is committed
C10_Witness ==
    \E i \in Calls :
        /\ tool[i] = "query" /\ Returned(i) /\ Success(i)
        /\ issued[i].stmt.op = "insert"
        /\ before[i][issued[i].stmt.key] = 0
        /\ table[issued[i].stmt.key] = issued[i].stmt.val
        /\ table # before[i]

\* slot i runs ExplainAnalyze with one of the line formats and has returned
\* its plan
TextPlanReturned(i) ==
    /\ Explaining(i) /\ Returned(i) /\ Success(i)
    /\ locals[i].format \in {"text", "xml", "yaml"}

\* the lines of a cursor, each followed by one newline, in cursor order
LinesOf(cursor) ==
    Join([j \in 1..Len(cursor.rows) |-> cursor.rows[j][1].s \o "\n"], "")

\* C11: when the resolved format is text, xml or yaml, ExplainAnalyze
\* returns a string that is the concatenation, in cursor order, of each
\* row's single text column followed by one newline; the data payload and
\* the display text of the result are that same string.
C11_TextConcatenation ==
    \A i \in Calls :
        TextPlanReturned(i) =>
            /\ ret[i].data.kind = "string"
            /\ ret[i].data.s = LinesOf(rows[i])
            /\ ret[i].result.Text = ret[i].data.s

\* a text plan of two lines came back as two lines, each ended by a newline
C11_Witness ==
    \E i \in Calls :
        /\ TextPlanReturned(i)
        /\ locals[i].format = "text"
        /\ Len(rows[i].rows) = 2
        /\ ret[i].result.Text =
              rows[i].rows[1][1].s \o "\n" \o rows[i].rows[2][1].s \o "\n"

\* the startup steps of main that must precede serving, in their order
StartupSteps == << "os.Getenv", "pgxpool.ParseConfig", "pgxpool.NewWithConfig", "pool.Ping" >>

\* a startup step of main has failed
StartupFailed ==
    \E j \in 1..Len(main.steps) :
        \E k \in 1..Len(StartupSteps) : main.steps[j] = StartupSteps[k] \o " failed"

\* C12: no tool is registered and no call is served unless the connection
\* string was obtained (DATABASE_URL if non-empty, otherwise POSTGRES_URL),
\* it parsed, the pool was created and the ping succeeded, in that order;
\* when one of these steps fails the process has exited with no tool
\* registered and no call served.
C12_StartupOrder ==
    /\ (main.tools # << >> \/ \E i \in Calls : pc[i] # "idle") =>
          /\ Len(main.steps) >= Len(StartupSteps)
          /\ SubSeq(main.steps, 1, Len(StartupSteps)) = StartupSteps
          /\ main.connStr # ""
          /\ main.connStr = (IF main.env.DATABASE_URL # "" THEN main.env.DATABASE_URL
                             ELSE main.env.POSTGRES_URL)
          /\ main.connStr \in ParsableURLs
          /\ pool
    /\ StartupFailed =>
          /\ main.pc = "exited" /\ main.exit = 1
          /\ main.tools = << >>
          /\ \A i \in Calls : pc[i] = "idle"

\* DATABASE_URL is empty, POSTGRES_URL was used, the six tools were added
\* and a call of the query tool was served and has returned
C12_Witness ==
    \E i \in Calls :
        /\ main.pc = "serving"
        /\ main.env.DATABASE_URL = "" /\ main.connStr = "postgres://fallback"
        /\ main.tools = ToolOrder
        /\ tool[i] = "query" /\ Returned(i) /\ Success(i)

\* C13: while the pool handle is not initialised, a call of any of the six
\* tools has returned a hard error (nil result, nil data, non-nil error)
\* and has made no database call: no query, no transaction begun, no
\* cursor, the table as it was.
C13_NotConnectedIsHardError ==
    \A i \in Calls :
        (tool[i] \in Tools /\ ~pool) =>
            /\ Returned(i)
            /\ ret[i].result.isNil /\ ret[i].data = NilData
            /\ ret[i].err = "database not connected"
            /\ trace[i] = << >>
            /\ issued[i] = NoIssued
            /\ tx[i] = "none" /\ rowsState[i] = "none"
            /\ table = before[i]

\* ExplainAnalyze was called with an INSERT while the pool handle was nil
C13_Witness ==
    \E i \in Calls :
        /\ ~pool
        /\ tool[i] = "explain_analyze" /\ Returned(i)
        /\ args[i].Query.op = "insert"
        /\ ret[i].err # NoErr /\ trace[i] = << >>

\* 1 when the flag is set, 0 when it is not
Count(b) == IF b THEN 1 ELSE 0

TimingOptions == {"TIMING true", "TIMING false"}

\* C14: for every resolved option set the option clause is ANALYZE b,
\* COSTS b, SUMMARY b, FORMAT f, then VERBOSE true iff verbose, then
\* BUFFERS true iff buffers, then TIMING b iff analyze, and nothing else;
\* no option appears twice, TIMING never appears when analyze is false, and
\* the statement sent starts with these options in this order.
C14_OptionClause ==
    \A i \in Calls :
        Explaining(i) =>
            LET o == issued[i].options
                fl == locals[i].flags
                nv == Count(fl["verbose"])
                nb == Count(fl["buffers"])
            IN  /\ Len(o) = 4 + nv + nb + Count(fl["analyze"])
                /\ o[1] = (IF fl["analyze"] THEN "ANALYZE true" ELSE "ANALYZE false")
                /\ o[2] = (IF fl["costs"] THEN "COSTS true" ELSE "COSTS false")
                /\ o[3] = (IF fl["summary"] THEN "SUMMARY true" ELSE "SUMMARY false")
                /\ o[4] = "FORMAT " \o locals[i].format
                /\ fl["verbose"] => o[5] = "VERBOSE true"
                /\ fl["buffers"] => o[5 + nv] = "BUFFERS true"
                /\ fl["analyze"] =>
                      o[5 + nv + nb] = (IF fl["timing"] THEN "TIMING true" ELSE "TIMING false")
                /\ Cardinality(OptionSet(o)) = Len(o)
                /\ ~fl["analyze"] => OptionSet(o) \cap TimingOptions = {}
                /\ issued[i].sql = "EXPLAIN (" \o Join(o, ", ") \o ") "

\* verbose, buffers and analyze are set and timing is not: seven options,
\* sent to the engine
C14_Witness ==
    \E i \in Calls :
        /\ Explaining(i) /\ InTrace(i, "tx.Query")
        /\ locals[i].flags["verbose"] /\ locals[i].flags["buffers"]
        /\ locals[i].flags["analyze"] /\ ~locals[i].flags["timing"]
        /\ Len(issued[i].options) = 7
        /\ issued[i].options[7] = "TIMING false"

\* the cursor of slot i failed to decode a row, or reported a fault when
\* iteration ended
RowFault(i) ==
    /\ rowsState[i] # "none"
    /\ rows[i].scanFault # 0 \/ rows[i].err # NoErr

\* C15: in ExecuteQuery and in ExplainAnalyze (JSON path and text path), a
\* row that fails to scan or a cursor fault reported after iteration makes
\* the tool return a hard error (nil result, non-nil error), with none of
\* the rows read before the fault in what is returned.
C15_RowFaultIsHardError ==
    \A i \in Calls :
        (tool[i] \in {"query", "explain_analyze"} /\ Returned(i) /\ RowFault(i)) =>
            /\ ret[i].result.isNil
            /\ ret[i].data = NilData
            /\ ret[i].err = (IF rows[i].scanFault # 0
                             THEN "failed to scan row: " \o DecodeFault
                             ELSE "row iteration error: " \o rows[i].err)

\* the query tool read one row, then the connection failed
C15_Witness ==
    \E i \in Calls :
        /\ tool[i] = "query" /\ Returned(i)
        /\ Len(rows[i].rows) = 1 /\ rows[i].err = ConnLost
        /\ ret[i].result.isNil /\ ret[i].err = "row iteration error: " \o ConnLost

\* C16: in each catalog tool a cursor fault that ends row iteration early
\* results in a hard tool error (nil result, non-nil error); the rows read
\* before the fault are never returned as a successful result.
C16_CatalogIterationFault ==
    \A i \in Calls :
        (tool[i] \in CatalogTools /\ Returned(i) /\ rowsState[i] # "none"
            /\ rows[i].err # NoErr) =>
            /\ ret[i].result.isNil
            /\ ret[i].data = NilData
            /\ ret[i].err # NoErr

\* the result slot i holds carries the error flag
ErrorFlagSet(i) == ~ret[i].result.isNil /\ ret[i].result.IsError

\* the Query call of slot i was made and returned an error, not a cursor
QueryCallFailed(i) ==
    /\ InTrace(i, "pool.Query") \/ InTrace(i, "tx.Query")
    /\ rowsState[i] = "none"

\* C17: a result with the error flag set comes only from ExecuteQuery and
\* ExplainAnalyze, when their statement was sent and failed; a catalog tool
\* whose query fails returns a hard error (nil result, non-nil error), and
\* no catalog tool ever holds a result with the error flag set.
C17_FlaggedOnlyFromQueryAndExplain ==
    \A i \in Calls :
        /\ ErrorFlagSet(i) =>
              /\ tool[i] \in {"query", "explain_analyze"}
              /\ QueryCallFailed(i)
        /\ tool[i] \in CatalogTools => ~ErrorFlagSet(i)
        /\ (tool[i] \in CatalogTools /\ Returned(i) /\ QueryCallFailed(i)) =>
              /\ ret[i].result.isNil
              /\ ret[i].data = NilData
              /\ ret[i].err = CatalogFailure(tool[i]) \o ConnLost

\* the query of GetTableConstraints failed and the tool returned the error
C17_Witness ==
    \E i \in Calls :
        /\ tool[i] = "get_table_constraints" /\ Returned(i)
        /\ trace[i] = << "pool.Query" >>
        /\ ret[i].result.isNil
        /\ ret[i].err = "failed to get table constraints: " \o ConnLost

\* slot i ran the generic row marshaler and returned its rows
RowsReturned(i) ==
    /\ \/ tool[i] = "query"
       \/ tool[i] = "explain_analyze" /\ locals[i].format = "json"
    /\ Returned(i) /\ Success(i)
    /\ rowsState[i] # "none"

\* the positions of the cursor's column list that hold name n
Positions(fields, n) == { h \in 1..Len(fields) : fields[h] = n }

\* C18: on success the row sequence of ExecuteQuery, and of ExplainAnalyze
\* with format json, has one record per row the cursor yielded, in the
\* cursor's order: the record at position j is made from row j, none is
\* dropped, duplicated or moved.
C18_RowOrder ==
    \A i \in Calls :
        RowsReturned(i) =>
            LET elems == ret[i].data.elems
                fields == rows[i].fields
            IN  /\ ret[i].data.kind = "slice"
                /\ Len(elems) = Len(rows[i].rows)
                /\ \A j \in 1..Len(elems) :
                      /\ DOMAIN elems[j] = { fields[h] : h \in 1..Len(fields) }
                      /\ \A n \in DOMAIN elems[j] :
                            \E h \in Positions(fields, n) : elems[j][n] = rows[i].rows[j][h]
                      /\ \A h \in 1..Len(fields) :
                            Positions(fields, fields[h]) = {h} =>
                                elems[j][fields[h]] = rows[i].rows[j][h]

\* the query tool selected the rows of keys 1 and 2 and returned them in
\* that order
C18_Witness ==
    \E i \in Calls :
        /\ tool[i] = "query" /\ RowsReturned(i)
        /\ Len(rows[i].rows) = 2
        /\ rows[i].rows[1][1] = IntCell(1) /\ rows[i].rows[2][1] = IntCell(2)
        /\ Len(ret[i].data.elems) = 2
        /\ ret[i].data.elems[1]["k"] = IntCell(1)
        /\ ret[i].data.elems[2]["k"] = IntCell(2)

\* one row written as a JSON object whose members follow the cursor's
\* column list
ObjectInFieldOrder(fields, values) ==
    "  {\n"
    \o Join([h \in 1..Len(fields) |->
                "    \"" \o fields[h] \o "\": " \o EncodeCell(values[h])], ",\n")
    \o "\n  }"

\* C19: each record ExecuteQuery produces keeps the select-list order of
\* its columns (the order of the cursor's column list, not the alphabetical
\* one) in the serialized text of the result.
C19_ColumnOrder ==
    \A i \in Calls :
        (tool[i] = "query" /\ RowsReturned(i) /\ rows[i].rows # << >>
            /\ \A h \in 1..Len(rows[i].fields) :
                   Positions(rows[i].fields, rows[i].fields[h]) = {h}) =>
            ret[i].result.Text =
                "[\n"
                \o Join([j \in 1..Len(rows[i].rows) |->
                            ObjectInFieldOrder(rows[i].fields, rows[i].rows[j])], ",\n")
                \o "\n]"

\* the last position of the cursor's column list that holds name n
LastPosition(fields, n) ==
    CHOOSE h \in Positions(fields, n) : \A g \in Positions(fields, n) : g <= h

\* C20: each record ExecuteQuery produces holds one entry per distinct
\* column name; under a name that two or more columns share, the entry is
\* the value of the last of them in select-list order, and under a name
\* one column has, the value of that column.
C20_DuplicateNamesLastWins ==
    \A i \in Calls :
        (tool[i] = "query" /\ RowsReturned(i)) =>
            LET fields == rows[i].fields
            IN  \A j \in 1..Len(ret[i].data.elems) :
                    /\ DOMAIN ret[i].data.elems[j] = { fields[h] : h \in 1..Len(fields) }
                    /\ \A n \in DOMAIN ret[i].data.elems[j] :
                          ret[i].data.elems[j][n] = rows[i].rows[j][LastPosition(fields, n)]

\* SELECT k AS x, v AS x returned a row whose two columns differ: the
\* record has the one entry x, holding the second column
C20_Witness ==
    \E i \in Calls :
        /\ tool[i] = "query" /\ RowsReturned(i)
        /\ rows[i].fields = << "x", "x" >>
        /\ Len(ret[i].data.elems) >= 1
        /\ rows[i].rows[1][1] # rows[i].rows[1][2]
        /\ DOMAIN ret[i].data.elems[1] = {"x"}
        /\ ret[i].data.elems[1]["x"] = rows[i].rows[1][2]

\* C21: when the deferred rollback of ExplainAnalyze fails, the failure is
\* not surfaced: the rollback step, failed or not, leaves the result, the
\* data payload and the error of the return statement as they were, so the
\* caller gets the triple it gets when the rollback succeeds.
C21_SilentRollbackFailure ==
    [][\A i \in Calls :
          (pc[i] = "rollback" /\ pc'[i] = "done") => ret'[i] = ret[i]]_vars

\* ExplainAnalyze returned its plan although its rollback had failed
C21_Witness ==
    \E i \in Calls :
        /\ Explaining(i) /\ Returned(i) /\ Success(i)
        /\ LastEvent(i) = "tx.Rollback failed"
        /\ ret[i].data.kind = "slice" /\ Len(ret[i].data.elems) = 1

\* the positions of the trace of slot i that hold an event of set E
EventsAt(i, E) == { j \in 1..Len(trace[i]) : trace[i][j] \in E }

\* C22: under every interleaving of concurrent ExplainAnalyze invocations
\* on one pool, each invocation past pool.Begin has a transaction of its
\* own, sends its EXPLAIN statement on that transaction only (never on the
\* pool, never before the transaction began), and a transaction is rolled
\* back by the invocation that began it and by no other; once every
\* invocation has returned no transaction is open, and nothing any of them
\* wrote is committed.
C22_TransactionPerInvocation ==
    /\ \A i \in Calls :
          tool[i] = "explain_analyze" =>
              /\ pc[i] \in {"txquery", "rows", "close", "rollback"} =>
                    /\ tx[i] \in {"open", "aborted"}
                    /\ Cardinality(EventsAt(i, {"pool.Begin"})) = 1
                    /\ EventsAt(i, Rollbacks) = {}
              /\ ~InTrace(i, "pool.Query")
              /\ \A j \in EventsAt(i, {"tx.Query"}) :
                    /\ EventsAt(i, {"pool.Begin"}) = {1}
                    /\ j = 2
                    /\ \A h \in EventsAt(i, Rollbacks) : j < h
              /\ tx[i] = "rolledback" <=> EventsAt(i, Rollbacks) # {}
              /\ Cardinality(EventsAt(i, Rollbacks)) <= 1
              /\ tx[i] = "none" <=> ~InTrace(i, "pool.Begin")
              /\ table = before[i]
    /\ \A i \in Calls : tool[i] = "none" => tx[i] = "none"
    /\ (\A i \in Calls : pc[i] \in {"idle", "done"}) =>
          \A i \in Calls : tx[i] \in {"none", "rolledback"}

\* two invocations overlap: the first still reads its rows inside its open
\* transaction while the second, begun meanwhile, has rolled back its own
\* and returned
C22_Witness ==
    \E i \in Calls, j \in Calls :
        /\ i # j
        /\ Explaining(i) /\ pc[i] = "rows" /\ tx[i] = "open"
        /\ txTable[i] # table
        /\ Explaining(j) /\ Returned(j) /\ tx[j] = "rolledback"
        /\ trace[j] = << "pool.Begin", "tx.Query", "rows.Close", "tx.Rollback" >>

\* C23: in ExplainAnalyze, on every exit path taken after tx.Query returned
\* a cursor, the cursor is closed before the rollback is issued: the
\* rollback never runs while the cursor is open, and the invocation ends
\* with rows.Close followed by the rollback.
C23_CloseBeforeRollback ==
    \A i \in Calls :
        (Explaining(i) /\ rowsState[i] # "none") =>
            /\ pc[i] = "rollback" => rowsState[i] = "closed"
            /\ \A h \in EventsAt(i, Rollbacks) :
                  /\ h > 1
                  /\ trace[i][h - 1] = "rows.Close"
            /\ Returned(i) =>
                  /\ rowsState[i] = "closed"
                  /\ Len(trace[i]) = 4
                  /\ SubSeq(trace[i], 1, 3) = << "pool.Begin", "tx.Query", "rows.Close" >>
                  /\ trace[i][4] \in Rollbacks

\* the exit after rows.Err() reported a fault: cursor closed, then rollback
C23_Witness ==
    \E i \in Calls :
        /\ Explaining(i) /\ Returned(i)
        /\ ret[i].err = "row iteration error: " \o ConnLost
        /\ rowsState[i] = "closed"
        /\ trace[i] = << "pool.Begin", "tx.Query", "rows.Close", "tx.Rollback" >>

\* slot i was called with no request, or with raw arguments that do not
\* parse
NoRawArguments(i) == req[i].isNil \/ ~req[i].parses

\* C24: when ExplainAnalyze is called with a nil request, or with raw
\* arguments that do not parse, each of the six flags takes its default
\* (analyze, costs, timing, summary true; buffers, verbose false) whatever
\* the booleans of the typed argument record are, and the option clause is
\* the one of the defaults.
C24_NilRequestUsesDefaults ==
    \A i \in Calls :
        (Explaining(i) /\ NoRawArguments(i)) =>
            /\ \A f \in {"analyze", "costs", "timing", "summary"} : locals[i].flags[f]
            /\ \A f \in {"buffers", "verbose"} : ~locals[i].flags[f]
            /\ issued[i].options =
                  << "ANALYZE true", "COSTS true", "SUMMARY true",
                     "FORMAT " \o locals[i].format, "TIMING true" >>

\* a nil request with Verbose=true and Analyze=false in the typed record:
\* the statement was sent with ANALYZE true and without VERBOSE
C24_Witness ==
    \E i \in Calls :
        /\ Explaining(i) /\ req[i].isNil
        /\ args[i].flags["verbose"] /\ ~args[i].flags["analyze"]
        /\ InTrace(i, "tx.Query")
        /\ issued[i].options[1] = "ANALYZE true"
        /\ "VERBOSE true" \notin OptionSet(issued[i].options)

\* the three shapes of a returned triple
SuccessShape(r) == ~r.result.isNil /\ ~r.result.IsError /\ r.err = NoErr

FlaggedShape(r) == ~r.result.isNil /\ r.result.IsError /\ r.data = NilData /\ r.err = NoErr

HardErrorShape(r) == r.result.isNil /\ r.data = NilData /\ r.err # NoErr

\* C25: every return of ExecuteQuery and of ExplainAnalyze has exactly one
\* of three shapes: success (non-nil result, flag unset, nil error),
\* error-flagged (non-nil result, flag set, nil data, nil error) or hard
\* error (nil result, nil data, non-nil error); a non-nil result never
\* comes with a non-nil error.
C25_ThreeReturnShapes ==
    \A i \in Calls :
        (tool[i] \in {"query", "explain_analyze"} /\ Returned(i)) =>
            /\ Cardinality({ k \in 1..3 :
                    \/ k = 1 /\ SuccessShape(ret[i])
                    \/ k = 2 /\ FlaggedShape(ret[i])
                    \/ k = 3 /\ HardErrorShape(ret[i]) }) = 1
            /\ ~(~ret[i].result.isNil /\ ret[i].err # NoErr)

\* the query tool read a row it could not marshal: a hard error, no result
C25_Witness ==
    \E i \in Calls :
        /\ tool[i] = "query" /\ Returned(i)
        /\ issued[i].stmt.op = "selectnan"
        /\ Len(rows[i].rows) = 1 /\ rows[i].err = NoErr /\ rows[i].scanFault = 0
        /\ HardErrorShape(ret[i])

====
